---- MODULE Spec2Model ----
(***************************************************************************)
(* Trip record lifecycle of backend/server.py: identifier allocation,      *)
(* balance derivation on create/update, role checks and listing, over the  *)
(* shared trips collection, with requests interleaving at their awaits.    *)
(*                                                                         *)
(* Python values are wrapped so that None compares with every value:       *)
(* None is <<>> and a value v is <<v>>.  Strings that are formatted or     *)
(* parsed (trip_id) are sequences of one-character strings.  Amounts are   *)
(* integers.  The opaque text fields of a trip (loading_date,              *)
(* vehicle_number, driver_mobile, from_location, ...) take part in no      *)
(* decision of the code; remarks stands for them.                          *)
(***************************************************************************)
EXTENDS Integers, Sequences, FiniteSets, TLC

VARIABLES trips, clock, year, pc, loc, last, issued, ncreates

vars == <<trips, clock, year, pc, loc, last, issued, ncreates>>

\* ------------------------------------------------------------- bounds
NumProcs == 2
MaxCreates == 3
MaxNewYears == 1
StartYear == 2026

Procs == 1 .. NumProcs

\* ------------------------------------------------------- python values
None == <<>>
Some(v) == <<v>>
Val(o) == o[1]

\* python `x or 0` on an optional number
OrZero(o) == IF o = None \/ o = Some(0) THEN 0 ELSE Val(o)

\* dict.get(k, default): the default is used only when the key is missing
DictGet(d, k, default) == IF k \in DOMAIN d THEN d[k] ELSE default

\* --------------------------------------------------- strings, integers
DigitChars == <<"0", "1", "2", "3", "4", "5", "6", "7", "8", "9">>

RECURSIVE FormatInt(_)
\* str(n) of a non-negative integer (the f-string conversion of line 193)
FormatInt(n) ==
    IF n < 10 THEN <<DigitChars[n + 1]>>
    ELSE FormatInt(n \div 10) \o <<DigitChars[(n % 10) + 1]>>

DigitVal(c) == CHOOSE d \in 0 .. 9 : DigitChars[d + 1] = c

RECURSIVE ParseInt(_)
\* int(s) of a non-empty string of decimal digits
ParseInt(s) ==
    IF Len(s) = 1 THEN DigitVal(s[1])
    ELSE ParseInt(SubSeq(s, 1, Len(s) - 1)) * 10 + DigitVal(s[Len(s)])

RECURSIVE Split(_, _)
\* s.split(sep) for a one-character separator
Split(s, sep) ==
    IF \A i \in 1 .. Len(s) : s[i] # sep THEN <<s>>
    ELSE LET k == CHOOSE i \in 1 .. Len(s) :
                      s[i] = sep /\ \A j \in 1 .. i - 1 : s[j] # sep
         IN  <<SubSeq(s, 1, k - 1)>> \o Split(SubSeq(s, k + 1, Len(s)), sep)

\* re.match of "^<prefix>"
StartsWith(s, prefix) ==
    Len(s) >= Len(prefix) /\ SubSeq(s, 1, Len(prefix)) = prefix

YearPrefix(y) == FormatInt(y) \o <<"_">>

\* f"{current_year}_{new_number}"
TripIdOf(y, n) == FormatInt(y) \o <<"_">> \o FormatInt(n)

\* int(trip_id.split("_")[1])
SuffixOf(tid) == ParseInt(Split(tid, "_")[2])

\* ------------------------------------------------------ the collection
\* trips is the collection in insertion order; a query without a sort
\* returns its first match in that order.
Matching(ts, tid) == {i \in 1 .. Len(ts) : ts[i].trip_id = tid}

FirstMatch(ts, tid) ==
    CHOOSE i \in Matching(ts, tid) : \A j \in Matching(ts, tid) : i <= j

\* find_one({"trip_id": trip_id}): the document, or None
find_one(ts, tid) ==
    IF Matching(ts, tid) = {} THEN None ELSE Some(ts[FirstMatch(ts, tid)])

\* update_one({"trip_id": trip_id}, {"$set": upd}): no match, no change
update_one(ts, tid, upd) ==
    IF Matching(ts, tid) = {} THEN ts
    ELSE [ts EXCEPT ![FirstMatch(ts, tid)] = upd @@ @]

RemoveAt(ts, k) ==
    [i \in 1 .. Len(ts) - 1 |-> IF i < k THEN ts[i] ELSE ts[i + 1]]

\* delete_one({"trip_id": trip_id})
delete_one(ts, tid) ==
    IF Matching(ts, tid) = {} THEN ts ELSE RemoveAt(ts, FirstMatch(ts, tid))

\* ------------------------------------------------ Identifier Allocator
LatestOf(ts, cand) ==
    CHOOSE i \in cand : \A j \in cand : ts[j].created_at <= ts[i].created_at

\* generate_trip_id without the year regex of line 185
generate_trip_id_anyyear(ts, y) ==
    LET cand == 1 .. Len(ts)
    IN  IF cand = {} THEN TripIdOf(y, 1)
        ELSE TripIdOf(y, SuffixOf(ts[LatestOf(ts, cand)].trip_id) + 1)

\* generate_trip_id with current_year = y: the find_one of lines 184-187
\* (regex on the year prefix, sort by created_at descending) and the
\* arithmetic of lines 188-193
generate_trip_id(ts, y) ==
    LET cand == {i \in 1 .. Len(ts) : StartsWith(ts[i].trip_id, YearPrefix(y))}
    IN  IF cand = {} THEN TripIdOf(y, 1)
        ELSE TripIdOf(y, SuffixOf(ts[LatestOf(ts, cand)].trip_id) + 1)

\* --------------------------------------------------------- create_trip
\* lines 237-239
CreateGadiBalance(input) ==
    IF input.is_own_vehicle = Some(FALSE) /\ input.gadi_bhada # None
    THEN Some(Val(input.gadi_bhada) - OrZero(input.gadi_advance))
    ELSE None

\* line 241
CreatePartyBalance(input) ==
    Some(Val(input.party_freight) - OrZero(input.party_advance))

\* lines 243-248: the stored document
TripDict(input, tid, email, now) ==
    input @@ [trip_id |-> tid,
              gadi_balance |-> CreateGadiBalance(input),
              party_balance |-> CreatePartyBalance(input),
              created_by |-> email,
              created_at |-> now]

\* --------------------------------------------------------- update_trip
\* the fields of TripUpdate, lines 112-132
TripUpdateFields ==
    {"loading_date", "unloading_date", "vehicle_number", "driver_mobile",
     "is_own_vehicle", "motor_owner_name", "motor_owner_mobile", "gadi_bhada",
     "gadi_advance", "party_name", "party_mobile", "party_freight",
     "party_advance", "tds", "from_location", "to_location", "weight",
     "himmali", "remarks", "status", "settlement_status"}

\* a request model that keeps the keys it does not declare
TripUpdateKeepExtra(body) == body

\* trip_data: TripUpdate (line 288): the request body parsed by the model,
\* which ignores the keys it does not declare
TripUpdateModel(body) == [k \in DOMAIN body \cap TripUpdateFields |-> body[k]]

\* line 296: the fields set in the request whose value is not None
UpdateDict(input) == [k \in {f \in DOMAIN input : input[f] # None} |-> input[k]]

GadiTouched(ud) == "gadi_bhada" \in DOMAIN ud \/ "gadi_advance" \in DOMAIN ud
GadiBhadaMerged(ud, ex) == DictGet(ud, "gadi_bhada", DictGet(ex, "gadi_bhada", None))
GadiAdvanceMerged(ud, ex) ==
    DictGet(ud, "gadi_advance", DictGet(ex, "gadi_advance", Some(0)))

PartyTouched(ud) == "party_freight" \in DOMAIN ud \/ "party_advance" \in DOMAIN ud
PartyFreightMerged(ud, ex) ==
    DictGet(ud, "party_freight", DictGet(ex, "party_freight", None))
PartyAdvanceMerged(ud, ex) ==
    DictGet(ud, "party_advance", DictGet(ex, "party_advance", Some(0)))

\* the subtraction of line 302 or 307 has a None operand: TypeError
UpdateRaises(ud, ex) ==
    \/ /\ GadiTouched(ud)
       /\ GadiBhadaMerged(ud, ex) # None
       /\ GadiAdvanceMerged(ud, ex) = None
    \/ /\ PartyTouched(ud)
       /\ (PartyFreightMerged(ud, ex) = None \/ PartyAdvanceMerged(ud, ex) = None)

\* lines 298-302
WithGadiBalance(ud, ex) ==
    IF GadiTouched(ud) /\ GadiBhadaMerged(ud, ex) # None
    THEN ("gadi_balance" :>
            Some(Val(GadiBhadaMerged(ud, ex)) - Val(GadiAdvanceMerged(ud, ex)))) @@ ud
    ELSE ud

\* lines 304-307
WithPartyBalance(ud, ex) ==
    IF PartyTouched(ud)
    THEN ("party_balance" :>
            Some(Val(PartyFreightMerged(ud, ex)) - Val(PartyAdvanceMerged(ud, ex)))) @@ ud
    ELSE ud

\* the $set document of line 309, from the request and the copy read at 289
UpdateSet(input, ex) == WithPartyBalance(WithGadiBalance(UpdateDict(input), ex), ex)

\* line 293
EditLocked(caller, ex) ==
    caller.role = "user" /\ DictGet(ex, "status", None) = Some("Completed")

\* ----------------------------------------------------------- get_trips
ListLimit == 1000

RECURSIVE SortDesc(_, _)
\* the documents at the indices idx, by created_at descending
SortDesc(ts, idx) ==
    IF idx = {} THEN <<>>
    ELSE LET k == LatestOf(ts, idx)
         IN  <<ts[k]>> \o SortDesc(ts, idx \ {k})

Project(d, hidden) == [k \in DOMAIN d \ hidden |-> d[k]]

\* get_trips without the motor_owner row filter of line 262
get_trips_unscoped(ts, caller) ==
    LET owner == caller.role = "motor_owner"
        all == SortDesc(ts, 1 .. Len(ts))
        cut == SubSeq(all, 1, IF Len(all) < ListLimit THEN Len(all) ELSE ListLimit)
    IN  [i \in 1 .. Len(cut) |->
           Project(cut[i], IF owner THEN {"party_freight"} ELSE {})]

\* lines 258-271: the list the handler returns
get_trips(ts, caller) ==
    LET owner == caller.role = "motor_owner"
        idx == {i \in 1 .. Len(ts) :
                  owner => ts[i].motor_owner_mobile = Some(caller.email)}
        all == SortDesc(ts, idx)
        cut == SubSeq(all, 1, IF Len(all) < ListLimit THEN Len(all) ELSE ListLimit)
    IN  [i \in 1 .. Len(cut) |->
           Project(cut[i], IF owner THEN {"party_freight"} ELSE {})]

\* response_model=List[Trip] (line 256): Trip requires party_freight
TripRequired == {"trip_id", "is_own_vehicle", "party_name", "party_mobile",
                 "party_freight", "status", "created_by"}

Validates(d) == TripRequired \subseteq DOMAIN d

\* ----------------------------------------------------------- analytics
RECURSIVE GroupStage(_, _, _)
\* the $group stage of lines 356-361 and 380-385 over the documents docs:
\* one accumulator per distinct _id; $sum adds 1 per document and the
\* numeric values of a field, a null adding nothing.  f names the fields.
GroupStage(docs, f, acc) ==
    IF docs = <<>> THEN acc
    ELSE LET d == Head(docs)
             id == [name |-> d[f.name], mobile |-> d[f.mobile]]
             hit == {j \in 1 .. Len(acc) : acc[j].id = id}
         IN  GroupStage(Tail(docs), f,
               IF hit = {}
               THEN Append(acc, [id |-> id, total_trips |-> 1,
                                 total_agreed |-> OrZero(d[f.agreed]),
                                 total_paid |-> OrZero(d[f.paid])])
               ELSE LET j == CHOOSE j \in hit : TRUE
                    IN  [acc EXCEPT ![j] =
                           [id |-> id, total_trips |-> @.total_trips + 1,
                            total_agreed |-> @.total_agreed + OrZero(d[f.agreed]),
                            total_paid |-> @.total_paid + OrZero(d[f.paid])]])

\* the $project stage of lines 362-370
PartyRow(g) ==
    [party_name |-> g.id.name, party_mobile |-> g.id.mobile,
     total_trips |-> g.total_trips, total_freight |-> g.total_agreed,
     total_paid |-> g.total_paid,
     outstanding_balance |-> g.total_agreed - g.total_paid]

\* get_party_analytics grouping on party_name alone
get_party_analytics_byname(ts) ==
    LET gs == GroupStage(ts, [name |-> "party_name", mobile |-> "party_name",
                              agreed |-> "party_freight", paid |-> "party_advance"], <<>>)
    IN  {PartyRow(gs[j]) : j \in 1 .. Len(gs)}

\* lines 355-374: the rows of the aggregation; their order is not specified
get_party_analytics(ts) ==
    LET gs == GroupStage(ts, [name |-> "party_name", mobile |-> "party_mobile",
                              agreed |-> "party_freight", paid |-> "party_advance"], <<>>)
    IN  {PartyRow(gs[j]) : j \in 1 .. Len(gs)}

\* response_model=List[PartyAnalytics] (lines 134-140): both keys are str
PartyRowValidates(r) == r.party_name # None /\ r.party_mobile # None

\* the $project stage of lines 386-394
OwnerRow(g) ==
    [motor_owner_name |-> g.id.name, motor_owner_mobile |-> g.id.mobile,
     total_trips |-> g.total_trips, total_bhada |-> g.total_agreed,
     total_paid |-> g.total_paid,
     outstanding_balance |-> g.total_agreed - g.total_paid]

\* the $match stage of line 379
OwnerMatch(d) == d.is_own_vehicle = Some(FALSE) /\ d.motor_owner_name # None

\* lines 378-398: the rows of the aggregation; their order is not specified
get_motor_owner_analytics(ts) ==
    LET gs == GroupStage(SelectSeq(ts, OwnerMatch),
                         [name |-> "motor_owner_name", mobile |-> "motor_owner_mobile",
                          agreed |-> "gadi_bhada", paid |-> "gadi_advance"], <<>>)
    IN  {OwnerRow(gs[j]) : j \in 1 .. Len(gs)}

\* response_model=List[MotorOwnerAnalytics] (lines 142-148): both keys are str
OwnerRowValidates(r) == r.motor_owner_name # None /\ r.motor_owner_mobile # None

\* ---------------------------------------------------------- upload_pod
\* the key stored when the uploaded name is taken as it is
PodKeyOfName(tid, fname) == fname

\* lines 330-331: f"{trip_id}_pod.{file.filename.split('.')[-1]}"
PodKey(tid, fname) ==
    LET parts == Split(fname, ".")
    IN  tid \o <<"_", "p", "o", "d", ".">> \o parts[Len(parts)]

\* ------------------------------------------------------------ get_trip
\* Trip(**d): the response model fills the defaults of lines 106-107
TripModel(d) == d @@ [settlement_status |-> Some("Pending"), pod_filename |-> None]

\* get_trip without the ownership check of lines 279-280
get_trip_unchecked(ts, caller, tid) ==
    LET found == find_one(ts, tid)
    IN  IF found = None THEN [code |-> 404, body |-> None]
        ELSE [code |-> 200, body |-> Some(TripModel(Val(found)))]

\* lines 275-285: the status code and the record returned
get_trip(ts, caller, tid) ==
    LET found == find_one(ts, tid)
    IN  IF found = None THEN [code |-> 404, body |-> None]
        ELSE IF /\ caller.role = "motor_owner"
                /\ DictGet(Val(found), "motor_owner_mobile", None) # Some(caller.email)
             THEN [code |-> 403, body |-> None]
        ELSE [code |-> 200, body |-> Some(TripModel(Val(found)))]

\* ------------------------------------------------------------- callers
\* get_current_user yields the caller's email and role (lines 163-175)
Admin == [email |-> "admin", role |-> "admin"]
Clerk == [email |-> "clerk", role |-> "user"]
Owner == [email |-> "m1", role |-> "motor_owner"]
Guest == [email |-> "guest", role |-> "guest"]

\* ------------------------------------------------------------- state
Idle == [op |-> "none"]

Init ==
    /\ trips = <<>>
    /\ clock = 0
    /\ year = StartYear
    /\ pc = [p \in Procs |-> "idle"]
    /\ loc = [p \in Procs |-> Idle]
    /\ last = Idle
    /\ issued = <<>>
    /\ ncreates = 0

\* trip ids a request may name: every id ever issued, and one more
TargetIds == {issued[i] : i \in 1 .. Len(issued)} \cup {TripIdOf(StartYear, 1)}

\* ------------------------------------------------------------ actions
\* create_trip up to the find_one of generate_trip_id (lines 235, 183-193)
CreateFind(p, caller, input, max) ==
    /\ pc[p] = "idle"
    /\ ncreates < max
    /\ pc' = [pc EXCEPT ![p] = "cr_stamp"]
    /\ loc' = [loc EXCEPT ![p] = [op |-> "create", caller |-> caller, input |-> input,
                                  trip_id |-> generate_trip_id(trips, year)]]
    /\ ncreates' = ncreates + 1
    /\ UNCHANGED <<trips, clock, year, last, issued>>

\* lines 237-248: the document is built and stamped; no two stamps are equal
CreateStamp(p) ==
    /\ pc[p] = "cr_stamp"
    /\ pc' = [pc EXCEPT ![p] = "cr_insert"]
    /\ loc' = [loc EXCEPT ![p] =
                 [op |-> "create", caller |-> loc[p].caller,
                  doc |-> TripDict(loc[p].input, loc[p].trip_id,
                                   loc[p].caller.email, clock)]]
    /\ clock' = clock + 1
    /\ UNCHANGED <<trips, year, last, issued, ncreates>>

\* lines 250-254: insert_one and the response, of which last keeps the
\* status code and the trip_id
CreateInsert(p) ==
    /\ pc[p] = "cr_insert"
    /\ trips' = Append(trips, loc[p].doc)
    /\ issued' = Append(issued, loc[p].doc.trip_id)
    /\ last' = [op |-> "create", caller |-> loc[p].caller, code |-> 200,
                trip_id |-> loc[p].doc.trip_id]
    /\ pc' = [pc EXCEPT ![p] = "idle"]
    /\ loc' = [loc EXCEPT ![p] = Idle]
    /\ UNCHANGED <<clock, year, ncreates>>

\* update_trip, lines 289-307: the read, the checks and the $set document
UpdateFind(p, caller, tid, input) ==
    /\ pc[p] = "idle"
    /\ LET found == find_one(trips, tid)
           fail(code) ==
               /\ last' = [op |-> "update", caller |-> caller, trip_id |-> tid,
                           input |-> input, code |-> code,
                           seen |-> IF found = None THEN None
                                    ELSE DictGet(Val(found), "status", None)]
               /\ UNCHANGED <<pc, loc>>
       IN  IF found = None THEN fail(404)
           ELSE IF EditLocked(caller, Val(found)) THEN fail(403)
           ELSE IF UpdateRaises(UpdateDict(input), Val(found)) THEN fail(500)
           ELSE /\ pc' = [pc EXCEPT ![p] = "upd_write"]
                /\ loc' = [loc EXCEPT ![p] =
                             [op |-> "update", caller |-> caller, trip_id |-> tid,
                              input |-> input,
                              seen |-> DictGet(Val(found), "status", None),
                              set |-> UpdateSet(input, Val(found))]]
                /\ UNCHANGED last
    /\ UNCHANGED <<trips, clock, year, issued, ncreates>>

\* line 309; a MongoDB server before 5.0 rejects an empty $set and the
\* handler answers 500, a later server accepts it and writes nothing
UpdateWrite(p) ==
    /\ pc[p] = "upd_write"
    /\ \E accepted \in (IF DOMAIN loc[p].set = {} THEN {TRUE, FALSE} ELSE {TRUE}) :
         IF accepted
         THEN /\ trips' = update_one(trips, loc[p].trip_id, loc[p].set)
              /\ pc' = [pc EXCEPT ![p] = "upd_fetch"]
              /\ UNCHANGED <<loc, last>>
         ELSE /\ last' = [op |-> "update", caller |-> loc[p].caller,
                          trip_id |-> loc[p].trip_id, input |-> loc[p].input,
                          code |-> 500, seen |-> loc[p].seen]
              /\ pc' = [pc EXCEPT ![p] = "idle"]
              /\ loc' = [loc EXCEPT ![p] = Idle]
              /\ UNCHANGED trips
    /\ UNCHANGED <<clock, year, issued, ncreates>>

\* lines 311-315: the re-read; None.get raises when the trip is gone; last
\* keeps the status code of the response
UpdateFetch(p) ==
    /\ pc[p] = "upd_fetch"
    /\ LET found == find_one(trips, loc[p].trip_id)
       IN  last' = [op |-> "update", caller |-> loc[p].caller,
                    trip_id |-> loc[p].trip_id, input |-> loc[p].input,
                    code |-> IF found = None THEN 500 ELSE 200,
                    seen |-> loc[p].seen]
    /\ pc' = [pc EXCEPT ![p] = "idle"]
    /\ loc' = [loc EXCEPT ![p] = Idle]
    /\ UNCHANGED <<trips, clock, year, issued, ncreates>>

\* delete_trip with the delete_one of line 319 ahead of the role check
DeleteThenCheck(caller, tid) ==
    /\ LET code == IF caller.role # "admin" THEN 403
                   ELSE IF Matching(trips, tid) = {} THEN 404 ELSE 200
       IN  /\ trips' = delete_one(trips, tid)
           /\ last' = [op |-> "delete", caller |-> caller, trip_id |-> tid,
                       code |-> code]
    /\ UNCHANGED <<clock, year, pc, loc, issued, ncreates>>

\* delete_trip, lines 317-322, behind get_admin_user (177-180)
Delete(caller, tid) ==
    /\ LET code == IF caller.role # "admin" THEN 403
                   ELSE IF Matching(trips, tid) = {} THEN 404 ELSE 200
       IN  /\ trips' = IF code = 200 THEN delete_one(trips, tid) ELSE trips
           /\ last' = [op |-> "delete", caller |-> caller, trip_id |-> tid,
                       code |-> code]
    /\ UNCHANGED <<clock, year, pc, loc, issued, ncreates>>

\* get_trips, lines 256-271: returned is the handler's list; the response
\* model rejects it when a record lacks a required field
List(caller) ==
    /\ LET out == get_trips(trips, caller)
       IN  last' = [op |-> "list", caller |-> caller, returned |-> out,
                    code |-> IF \A i \in 1 .. Len(out) : Validates(out[i])
                             THEN 200 ELSE 500]
    /\ UNCHANGED <<trips, clock, year, pc, loc, issued, ncreates>>

\* get_party_analytics, lines 353-374, behind get_admin_user (177-180)
Parties(caller) ==
    /\ LET rows == get_party_analytics(trips)
           code == IF caller.role # "admin" THEN 403
                   ELSE IF \A r \in rows : PartyRowValidates(r) THEN 200 ELSE 500
       IN  last' = [op |-> "parties", caller |-> caller, code |-> code,
                    rows |-> IF code = 200 THEN rows ELSE {}]
    /\ UNCHANGED <<trips, clock, year, pc, loc, issued, ncreates>>

\* get_motor_owner_analytics, lines 376-398, behind get_admin_user; a row
\* the response model rejects makes the whole response a 500
MotorOwners(caller) ==
    /\ LET rows == get_motor_owner_analytics(trips)
           code == IF caller.role # "admin" THEN 403
                   ELSE IF \A r \in rows : OwnerRowValidates(r) THEN 200 ELSE 500
       IN  last' = [op |-> "owners", caller |-> caller, code |-> code,
                    rows |-> IF code = 200 THEN rows ELSE {}]
    /\ UNCHANGED <<trips, clock, year, pc, loc, issued, ncreates>>

\* upload_pod, lines 326-335: the existence check, the key and the file
PodFind(p, caller, tid, fname) ==
    /\ pc[p] = "idle"
    /\ IF find_one(trips, tid) = None
       THEN /\ last' = [op |-> "pod", caller |-> caller, trip_id |-> tid,
                        code |-> 404, filename |-> None]
            /\ UNCHANGED <<pc, loc>>
       ELSE /\ pc' = [pc EXCEPT ![p] = "pod_write"]
            /\ loc' = [loc EXCEPT ![p] =
                         [op |-> "pod", caller |-> caller, trip_id |-> tid,
                          filename |-> PodKey(tid, fname)]]
            /\ UNCHANGED last
    /\ UNCHANGED <<trips, clock, year, issued, ncreates>>

\* lines 337-339
PodWrite(p) ==
    /\ pc[p] = "pod_write"
    /\ trips' = update_one(trips, loc[p].trip_id,
                           [pod_filename |-> Some(loc[p].filename)])
    /\ last' = [op |-> "pod", caller |-> loc[p].caller, trip_id |-> loc[p].trip_id,
                code |-> 200, filename |-> Some(loc[p].filename)]
    /\ pc' = [pc EXCEPT ![p] = "idle"]
    /\ loc' = [loc EXCEPT ![p] = Idle]
    /\ UNCHANGED <<clock, year, issued, ncreates>>

\* get_trip, lines 273-285
Get(caller, tid) ==
    /\ LET r == get_trip(trips, caller, tid)
       IN  last' = [op |-> "get", caller |-> caller, trip_id |-> tid,
                    code |-> r.code, body |-> r.body]
    /\ UNCHANGED <<trips, clock, year, pc, loc, issued, ncreates>>

\* the calendar year of datetime.now moves on
NewYear ==
    /\ year < StartYear + MaxNewYears
    /\ year' = year + 1
    /\ UNCHANGED <<trips, clock, pc, loc, last, issued, ncreates>>

\* ------------------------------------------------------------- inputs
\* a TripCreate body: the required fields set, every optional field present
BaseInput ==
    [is_own_vehicle |-> Some(FALSE), motor_owner_name |-> Some("mo"),
     motor_owner_mobile |-> Some("m1"), gadi_bhada |-> Some(5),
     gadi_advance |-> Some(2), party_name |-> Some("pa"),
     party_mobile |-> Some("p1"), party_freight |-> Some(7),
     party_advance |-> Some(3), remarks |-> None, status |-> Some("Loaded")]

\* ------------------------------------------- allocation: specifications
\* creations and deletions, interleaved at the awaits
AllocNext ==
    \/ \E p \in Procs : CreateFind(p, Clerk, BaseInput, MaxCreates)
    \/ \E p \in Procs : CreateStamp(p)
    \/ \E p \in Procs : CreateInsert(p)
    \/ \E tid \in TargetIds : Delete(Admin, tid)
    \/ NewYear

SpecAlloc == Init /\ [][AllocNext]_vars

\* the same requests, one at a time
Quiet == \A p \in Procs : pc[p] = "idle"

SeqAllocNext ==
    \/ Quiet /\ CreateFind(1, Clerk, BaseInput, MaxCreates)
    \/ CreateStamp(1)
    \/ CreateInsert(1)
    \/ Quiet /\ \E tid \in TargetIds : Delete(Admin, tid)
    \/ Quiet /\ NewYear

SpecSeqAlloc == Init /\ [][SeqAllocNext]_vars

SameYear(a, b) == Split(a, "_")[1] = Split(b, "_")[1]

\* C1: no two trips stored in the collection share a trip_id, whatever the
\* interleaving of concurrent creations.
C1_StoredIdsDistinct ==
    \A i, j \in 1 .. Len(trips) : i # j => trips[i].trip_id # trips[j].trip_id

\* C2: a create never returns a trip_id that an earlier create returned,
\* also when the earlier trip has been deleted since.
C2_NeverReused ==
    \A i, j \in 1 .. Len(issued) : i # j => issued[i] # issued[j]

\* C3: of two trips created in the same year, the one created later has the
\* strictly larger suffix.
C3_SuffixIncreasing ==
    \A i, j \in 1 .. Len(issued) :
        (i < j /\ SameYear(issued[i], issued[j]))
            => SuffixOf(issued[i]) < SuffixOf(issued[j])

\* --------------------------------------------- balances: specifications
MaxCreatesBal == 1

\* TripCreate bodies over hired/own vehicle and present/absent amounts
BalanceCreates ==
    {[BaseInput EXCEPT !.is_own_vehicle = Some(own), !.gadi_bhada = bhada,
                       !.gadi_advance = gadv, !.party_advance = padv] :
        own \in BOOLEAN, bhada \in {None, Some(5)},
        gadv \in {None, Some(2)}, padv \in {None, Some(3)}}

\* TripUpdate bodies: the fields set in the request
BalanceUpdates ==
    {[gadi_bhada |-> Some(6)],
     [gadi_advance |-> Some(1)],
     [gadi_bhada |-> Some(6), gadi_advance |-> Some(1)],
     [party_freight |-> Some(8)],
     [party_advance |-> Some(1)],
     [is_own_vehicle |-> Some(TRUE)],
     [is_own_vehicle |-> Some(FALSE)]}

BalanceNext ==
    \/ \E p \in Procs, input \in BalanceCreates :
           CreateFind(p, Clerk, input, MaxCreatesBal)
    \/ \E p \in Procs : CreateStamp(p)
    \/ \E p \in Procs : CreateInsert(p)
    \/ \E p \in Procs, tid \in TargetIds, input \in BalanceUpdates :
           UpdateFind(p, Clerk, tid, input)
    \/ \E p \in Procs : UpdateWrite(p)
    \/ \E p \in Procs : UpdateFetch(p)

SpecBalance == Init /\ [][BalanceNext]_vars

\* the same requests, one at a time
SeqBalanceNext ==
    \/ Quiet /\ \E input \in BalanceCreates : CreateFind(1, Clerk, input, MaxCreatesBal)
    \/ CreateStamp(1)
    \/ CreateInsert(1)
    \/ Quiet /\ \E tid \in TargetIds, input \in BalanceUpdates :
                    UpdateFind(1, Clerk, tid, input)
    \/ UpdateWrite(1)
    \/ UpdateFetch(1)

SpecSeqBalance == Init /\ [][SeqBalanceNext]_vars

PartyBalanceOk(d) ==
    d.party_balance = Some(Val(d.party_freight) - OrZero(d.party_advance))

GadiBalanceOk(d) ==
    d.gadi_balance = Some(Val(d.gadi_bhada) - OrZero(d.gadi_advance))

\* C4: every stored trip has a non-null party_balance equal to
\* party_freight - (party_advance or 0).
C4_PartyBalanceDerived ==
    \A i \in 1 .. Len(trips) :
        trips[i].party_balance # None /\ PartyBalanceOk(trips[i])

\* C5: every stored trip with is_own_vehicle = true has gadi_balance = None.
C5_OwnVehicleNoGadiBalance ==
    \A i \in 1 .. Len(trips) :
        trips[i].is_own_vehicle = Some(TRUE) => trips[i].gadi_balance = None

\* C6: every stored trip with is_own_vehicle = false and a non-null
\* gadi_bhada has a non-null gadi_balance equal to
\* gadi_bhada - (gadi_advance or 0).
C6_HiredGadiBalanceDerived ==
    \A i \in 1 .. Len(trips) :
        (trips[i].is_own_vehicle = Some(FALSE) /\ trips[i].gadi_bhada # None)
            => (trips[i].gadi_balance # None /\ GadiBalanceOk(trips[i]))

\* C7: a balance persisted by the write of an update equals the agreed
\* amount minus the advance as stored once that write is applied.
C7_WriteDerivesFromCommitted ==
    [][\A p \in Procs :
         (pc[p] = "upd_write" /\ pc'[p] = "upd_fetch"
            /\ Matching(trips, loc[p].trip_id) # {})
         => LET d == trips'[FirstMatch(trips', loc[p].trip_id)]
            IN  /\ "party_balance" \in DOMAIN loc[p].set => PartyBalanceOk(d)
                /\ "gadi_balance" \in DOMAIN loc[p].set => GadiBalanceOk(d)]_vars

\* ------------------------------------- roles, listing: specifications
MaxCreatesAcc == 2

\* a hired trip of owner m1 with an advance, and a Completed trip of owner
\* m2 created without an advance
AccessCreates ==
    {BaseInput,
     [BaseInput EXCEPT !.status = Some("Completed"),
                       !.motor_owner_mobile = Some("m2"),
                       !.party_advance = None]}

AccessUpdates ==
    {[status |-> Some("Completed")],
     [motor_owner_mobile |-> Some("m2")]}

SeqUpdates == AccessUpdates \cup {[party_freight |-> Some(8)]}

Callers == {Admin, Clerk, Owner, Guest}

Next ==
    \/ \E p \in Procs, input \in AccessCreates :
           CreateFind(p, Clerk, input, MaxCreatesAcc)
    \/ \E p \in Procs : CreateStamp(p)
    \/ \E p \in Procs : CreateInsert(p)
    \/ \E p \in Procs, c \in {Admin, Clerk}, tid \in TargetIds, input \in AccessUpdates :
           UpdateFind(p, c, tid, input)
    \/ \E p \in Procs : UpdateWrite(p)
    \/ \E p \in Procs : UpdateFetch(p)
    \/ \E c \in {Admin, Clerk}, tid \in TargetIds : Delete(c, tid)
    \/ \E c \in {Admin, Owner} : List(c)

Spec == Init /\ [][Next]_vars

\* the same requests, one at a time
SeqNext ==
    \/ Quiet /\ \E input \in AccessCreates : CreateFind(1, Clerk, input, MaxCreatesAcc)
    \/ CreateStamp(1)
    \/ CreateInsert(1)
    \/ Quiet /\ \E c \in Callers, tid \in TargetIds, input \in SeqUpdates :
                    UpdateFind(1, c, tid, input)
    \/ UpdateWrite(1)
    \/ UpdateFetch(1)
    \/ Quiet /\ \E c \in {Admin, Clerk}, tid \in TargetIds : Delete(c, tid)
    \/ Quiet /\ \E c \in {Admin, Owner} : List(c)

SeqSpec == Init /\ [][SeqNext]_vars

\* listing while trips are created, handed to another owner and deleted
ListNext ==
    \/ \E p \in Procs, input \in AccessCreates :
           CreateFind(p, Clerk, input, MaxCreatesAcc)
    \/ \E p \in Procs : CreateStamp(p)
    \/ \E p \in Procs : CreateInsert(p)
    \/ \E p \in Procs, tid \in TargetIds :
           UpdateFind(p, Clerk, tid, [motor_owner_mobile |-> Some("m2")])
    \/ \E p \in Procs : UpdateWrite(p)
    \/ \E p \in Procs : UpdateFetch(p)
    \/ \E tid \in TargetIds : Delete(Admin, tid)
    \/ \E c \in {Admin, Owner} : List(c)

SpecList == Init /\ [][ListNext]_vars

\* C8: an update by a user-role caller on a trip whose stored status is
\* "Completed" is answered Forbidden, and the same update by an admin
\* succeeds.
C8_CompletedUserForbiddenAdminOk ==
    (last.op = "update" /\ last.seen = Some("Completed"))
        => /\ last.caller.role = "user" => last.code = 403
           /\ last.caller.role = "admin" => last.code = 200

\* C9: no update issued by a caller whose role is not admin changes any
\* field of a trip whose stored status is "Completed".
C9_OnlyAdminEditsCompleted ==
    [][\A p \in Procs :
         (pc[p] = "upd_write" /\ pc'[p] = "upd_fetch"
            /\ loc[p].caller.role # "admin"
            /\ Matching(trips, loc[p].trip_id) # {}
            /\ trips[FirstMatch(trips, loc[p].trip_id)].status = Some("Completed"))
         => trips' = trips]_vars

\* C10: the list a motor_owner caller gets holds only records whose
\* motor_owner_mobile is the caller's identity, and none holds party_freight.
C10_OwnerListScoped ==
    (last.op = "list" /\ last.caller.role = "motor_owner")
        => \A i \in 1 .. Len(last.returned) :
               /\ last.returned[i].motor_owner_mobile = Some(last.caller.email)
               /\ "party_freight" \notin DOMAIN last.returned[i]

\* a motor_owner lists while the collection holds a trip of theirs and a
\* trip of another owner
C10_Witness ==
    /\ last.op = "list"
    /\ last.caller.role = "motor_owner"
    /\ Len(last.returned) >= 1
    /\ \E i \in 1 .. Len(trips) : trips[i].motor_owner_mobile # Some(last.caller.email)

\* ------------------------------------------ single fetch: specification
\* fetching while trips are created, handed to another owner and deleted
GetNext ==
    \/ \E p \in Procs, input \in AccessCreates :
           CreateFind(p, Clerk, input, MaxCreatesAcc)
    \/ \E p \in Procs : CreateStamp(p)
    \/ \E p \in Procs : CreateInsert(p)
    \/ \E p \in Procs, tid \in TargetIds :
           UpdateFind(p, Clerk, tid, [motor_owner_mobile |-> Some("m2")])
    \/ \E p \in Procs : UpdateWrite(p)
    \/ \E p \in Procs : UpdateFetch(p)
    \/ \E tid \in TargetIds : Delete(Admin, tid)
    \/ \E c \in {Admin, Owner}, tid \in TargetIds : Get(c, tid)

SpecGet == Init /\ [][GetNext]_vars

\* C11: a record that get(trip_id) returns to a motor_owner caller never
\* contains party_freight.
C11_OwnerGetHidesFreight ==
    (last.op = "get" /\ last.caller.role = "motor_owner" /\ last.body # None)
        => "party_freight" \notin DOMAIN Val(last.body)

\* C12: get(trip_id) by a motor_owner returns a record only when the
\* trip's motor_owner_mobile is the caller's identity; otherwise it is
\* denied (Forbidden or NotFound) and returns no field of the trip.
C12_OwnerGetOwnTripsOnly ==
    (last.op = "get" /\ last.caller.role = "motor_owner")
        => IF last.code = 200
           THEN /\ last.body # None
                /\ Val(last.body).motor_owner_mobile = Some(last.caller.email)
           ELSE last.code \in {403, 404} /\ last.body = None

\* a motor_owner is refused a stored trip that belongs to another owner
C12_Witness ==
    /\ last.op = "get"
    /\ last.caller.role = "motor_owner"
    /\ last.code = 403
    /\ \E i \in 1 .. Len(trips) :
           /\ trips[i].trip_id = last.trip_id
           /\ trips[i].motor_owner_mobile # Some(last.caller.email)

\* --------------------------------------------- lifecycle: specification
\* one request at a time: create, update, delete, fetch
SeqLifeNext ==
    \/ Quiet /\ CreateFind(1, Clerk, BaseInput, MaxCreatesAcc)
    \/ CreateStamp(1)
    \/ CreateInsert(1)
    \/ Quiet /\ \E tid \in TargetIds : UpdateFind(1, Clerk, tid, [remarks |-> Some("r")])
    \/ UpdateWrite(1)
    \/ UpdateFetch(1)
    \/ Quiet /\ \E c \in {Admin, Clerk}, tid \in TargetIds : Delete(c, tid)
    \/ Quiet /\ \E tid \in TargetIds : Get(Admin, tid)

SpecSeqLife == Init /\ [][SeqLifeNext]_vars

Count(seq, tid) == Cardinality({i \in 1 .. Len(seq) : seq[i] = tid})

\* a trip with this id has been deleted: it was inserted more often than
\* it is stored
WasDeleted(tid) == Count(issued, tid) > Cardinality(Matching(trips, tid))

\* C13: delete fails with Forbidden for a caller who is not admin, with
\* NotFound for an admin when no trip has the trip_id, and otherwise
\* removes exactly that trip; every later get or update of the trip_id
\* reports NotFound.
C13_DeleteContract ==
    [][/\ (last' # last /\ last'.op = "delete")
            => IF last'.caller.role # "admin"
               THEN last'.code = 403 /\ trips' = trips
               ELSE IF Matching(trips, last'.trip_id) = {}
               THEN last'.code = 404 /\ trips' = trips
               ELSE /\ last'.code = 200
                    /\ \E k \in Matching(trips, last'.trip_id) :
                           trips' = RemoveAt(trips, k)
       /\ (last' # last /\ last'.op \in {"get", "update"}
              /\ WasDeleted(last'.trip_id))
            => last'.code = 404]_vars

\* -------------------------------------------------- merge: specification
\* the fields of TripUpdate (lines 111-132) these requests can name
MergeFields == {"remarks", "status"}

MergeCreate == [BaseInput EXCEPT !.remarks = Some("r0")]

\* request bodies: a key of the record is a field present in the body
MergeUpdates ==
    { [remarks |-> None],
      [remarks |-> Some("r1")],
      [status |-> Some("Delivered")],
      [remarks |-> None, status |-> Some("Completed")] }

SeqMergeNext ==
    \/ Quiet /\ CreateFind(1, Clerk, MergeCreate, MaxCreatesAcc)
    \/ CreateStamp(1)
    \/ CreateInsert(1)
    \/ Quiet /\ \E tid \in TargetIds, u \in MergeUpdates : UpdateFind(1, Admin, tid, u)
    \/ UpdateWrite(1)
    \/ UpdateFetch(1)
    \/ Quiet /\ \E tid \in TargetIds : Delete(Admin, tid)

SpecSeqMerge == Init /\ [][SeqMergeNext]_vars

\* process p leaves line 309 in this step
WriteStep(p) == pc[p] = "upd_write" /\ pc'[p] # "upd_write"

\* C14: at the write of an update, a field absent from the
\* request keeps its stored value, a field present with a value takes it,
\* and a field present with null is unset: the stored field becomes null.
C14_NullUnsets ==
    [][\A p \in Procs : WriteStep(p) =>
          LET k == FirstMatch(trips, loc[p].trip_id)
              input == loc[p].input
          IN  Matching(trips, loc[p].trip_id) # {} =>
                \A f \in MergeFields :
                    trips'[k][f] = IF f \in DOMAIN input THEN input[f]
                                   ELSE trips[k][f]]_vars

\* ----------------------------------------------------- advance-only update
\* C15: the write of an update that supplies only gadi_advance, on a trip
\* with a stored non-null gadi_bhada, stores gadi_balance = stored
\* gadi_bhada - new gadi_advance; the write of an update that supplies only
\* party_advance stores party_balance = stored party_freight - new
\* party_advance.
C15_AdvanceOnlyUsesStored ==
    [][\A p \in Procs :
          (WriteStep(p) /\ Matching(trips, loc[p].trip_id) # {}) =>
            LET k == FirstMatch(trips, loc[p].trip_id)
                input == loc[p].input
            IN  /\ (DOMAIN input = {"gadi_advance"} /\ trips[k].gadi_bhada # None)
                     => trips'[k].gadi_balance =
                          Some(Val(trips[k].gadi_bhada) - Val(input.gadi_advance))
                /\ (DOMAIN input = {"party_advance"})
                     => trips'[k].party_balance =
                          Some(Val(trips[k].party_freight) - Val(input.party_advance))]_vars

\* C16: an update that supplies only the agreed amount (party_freight, or
\* gadi_bhada on a hired-vehicle trip) on a trip whose stored advance is
\* null is answered with success, and the stored balance is the new agreed
\* amount minus 0.
C16_NullAdvanceUpdateSucceeds ==
    [][(last' # last /\ last'.op = "update"
           /\ Matching(trips, last'.trip_id) # {}) =>
          LET k == FirstMatch(trips, last'.trip_id)
              input == last'.input
          IN  /\ (DOMAIN input = {"party_freight"} /\ trips[k].party_advance = None)
                   => /\ last'.code = 200
                      /\ trips'[k].party_balance = Some(Val(input.party_freight))
              /\ (DOMAIN input = {"gadi_bhada"} /\ trips[k].gadi_advance = None
                     /\ trips[k].is_own_vehicle = Some(FALSE))
                   => /\ last'.code = 200
                      /\ trips'[k].gadi_balance = Some(Val(input.gadi_bhada))]_vars

\* ------------------------------------------------- form of the identifier
\* process p runs generate_trip_id (line 235) in this step
AllocStep(p) == pc[p] = "idle" /\ pc'[p] = "cr_stamp"

\* C17: the identifier a create receives is "<current year>_<n>" with n a
\* positive integer in decimal, and it is "<current year>_1" when no stored
\* trip has an identifier of the current year, whatever trips of earlier
\* years are stored.
C17_FirstOfYearIsOne ==
    [][\A p \in Procs : AllocStep(p) =>
          LET tid == loc'[p].trip_id
              parts == Split(tid, "_")
          IN  /\ Len(parts) = 2
              /\ parts[1] = FormatInt(year)
              /\ Len(parts[2]) >= 1
              /\ \A i \in 1 .. Len(parts[2]) :
                     \E d \in 1 .. 10 : DigitChars[d] = parts[2][i]
              /\ ParseInt(parts[2]) >= 1
              /\ FormatInt(ParseInt(parts[2])) = parts[2]
              /\ (\A i \in 1 .. Len(trips) :
                      Split(trips[i].trip_id, "_")[1] # FormatInt(year))
                   => tid = FormatInt(year) \o <<"_", "1">>]_vars

\* a create of the second year has received "<year>_1" while a trip of the
\* first year is stored
C17_Witness ==
    /\ year > StartYear
    /\ \E i \in 1 .. Len(trips) : Split(trips[i].trip_id, "_")[1] = FormatInt(StartYear)
    /\ \E p \in Procs :
          /\ pc[p] = "cr_stamp"
          /\ loc[p].trip_id = FormatInt(year) \o <<"_", "1">>

\* ---------------------------------------------- analytics: specifications
PartyCreates ==
    {[BaseInput EXCEPT !.party_name = Some(n), !.party_mobile = Some(mob),
                       !.party_advance = adv] :
        n \in {"pa", "pb"}, mob \in {"p1", "p2"}, adv \in {None, Some(3)}}

SeqPartyNext ==
    \/ Quiet /\ \E input \in PartyCreates : CreateFind(1, Clerk, input, MaxCreates)
    \/ CreateStamp(1)
    \/ CreateInsert(1)
    \/ Quiet /\ \E tid \in TargetIds : Delete(Admin, tid)
    \/ Quiet /\ \E c \in {Admin, Clerk} : Parties(c)

SpecSeqParty == Init /\ [][SeqPartyNext]_vars

RECURSIVE SumOver(_, _, _)
\* the sum of a field over the stored trips at the indices G, null as 0
SumOver(ts, G, field) ==
    IF G = {} THEN 0
    ELSE LET i == CHOOSE i \in G : TRUE
         IN  OrZero(ts[i][field]) + SumOver(ts, G \ {i}, field)

OwnerCreates ==
    {[BaseInput EXCEPT !.is_own_vehicle = Some(own), !.motor_owner_name = n,
                       !.motor_owner_mobile = mob, !.gadi_advance = adv] :
        own \in BOOLEAN, n \in {None, Some("mo")},
        mob \in {None, Some("m1")}, adv \in {None, Some(2)}}

SeqOwnerNext ==
    \/ Quiet /\ \E input \in OwnerCreates : CreateFind(1, Clerk, input, MaxCreatesAcc)
    \/ CreateStamp(1)
    \/ CreateInsert(1)
    \/ Quiet /\ \E tid \in TargetIds : Delete(Admin, tid)
    \/ Quiet /\ \E c \in {Admin, Clerk} : MotorOwners(c)

SpecSeqOwner == Init /\ [][SeqOwnerNext]_vars

\* C19: the motor-owner analytics answered to an admin count a stored trip
\* in a row exactly when the trip has is_own_vehicle = false and a
\* motor_owner_name; the rows are the groups of these trips by
\* (motor_owner_name, motor_owner_mobile), and a row's outstanding_balance
\* is the sum of gadi_bhada minus the sum of gadi_advance over its group.
C19_OwnerRows ==
    [][(last' # last /\ last'.op = "owners" /\ last'.caller.role = "admin") =>
          LET rows == last'.rows
              Hired == {i \in 1 .. Len(trips) :
                           trips[i].is_own_vehicle = Some(FALSE)
                             /\ trips[i].motor_owner_name # None}
              Group(n, mob) == {i \in Hired :
                                   trips[i].motor_owner_name = n
                                     /\ trips[i].motor_owner_mobile = mob}
          IN  /\ last'.code = 200
              /\ \A i \in Hired :
                    Cardinality({r \in rows :
                        r.motor_owner_name = trips[i].motor_owner_name
                          /\ r.motor_owner_mobile = trips[i].motor_owner_mobile}) = 1
              /\ \A r \in rows :
                    LET G == Group(r.motor_owner_name, r.motor_owner_mobile)
                    IN  /\ G # {}
                        /\ r.total_trips = Cardinality(G)
                        /\ r.outstanding_balance =
                             SumOver(trips, G, "gadi_bhada")
                               - SumOver(trips, G, "gadi_advance")]_vars

\* ---------------------------------------------------- pod: specification
\* uploaded file names: "b.t.g" and "c"
PodNames == {<<"b", ".", "t", ".", "g">>, <<"c">>}

PodNext ==
    \/ \E p \in Procs : CreateFind(p, Clerk, BaseInput, MaxCreatesAcc)
    \/ \E p \in Procs : CreateStamp(p)
    \/ \E p \in Procs : CreateInsert(p)
    \/ \E p \in Procs, tid \in TargetIds, fname \in PodNames :
           PodFind(p, Clerk, tid, fname)
    \/ \E p \in Procs : PodWrite(p)
    \/ \E tid \in TargetIds : Delete(Admin, tid)

SpecPod == Init /\ [][PodNext]_vars

C21_AllocAboveHighest ==
    LET cur == {i \in 1 .. Len(trips) :
                   StartsWith(trips[i].trip_id, YearPrefix(year))}
        next == SuffixOf(generate_trip_id(trips, year))
    IN  cur # {} =>
          /\ \A i \in cur : SuffixOf(trips[i].trip_id) < next
          /\ \E j \in cur : SuffixOf(trips[j].trip_id) + 1 = next

\* ------------------------------------------------ frame: specification
\* the request body of an update; it names trip_id, which TripUpdate does
\* not declare
FrameBodies == { [trip_id |-> TripIdOf(StartYear, 9), remarks |-> Some("r")] }

FrameNext ==
    \/ CreateFind(1, Clerk, BaseInput, MaxCreatesAcc)
    \/ CreateStamp(1)
    \/ CreateInsert(1)
    \/ \E p \in Procs, tid \in TargetIds, body \in FrameBodies :
           UpdateFind(p, Clerk, tid, TripUpdateModel(body))
    \/ \E p \in Procs : UpdateWrite(p)
    \/ \E p \in Procs : UpdateFetch(p)
    \/ \E p \in Procs, tid \in TargetIds : PodFind(p, Clerk, tid, <<"c">>)
    \/ \E p \in Procs : PodWrite(p)
    \/ \E tid \in TargetIds : Delete(Admin, tid)

SpecFrame == Init /\ [][FrameNext]_vars

\* process p leaves line 337 in this step
PodWriteStep(p) == pc[p] = "pod_write" /\ pc'[p] # "pod_write"

\* C22: the write of an update and the write of an upload leave the
\* trip_id, created_by and created_at of every stored trip as they were.
C22_StampedFieldsKept ==
    [][\A p \in Procs : (WriteStep(p) \/ PodWriteStep(p)) =>
          /\ Len(trips') = Len(trips)
          /\ \A i \in 1 .. Len(trips) :
                /\ trips'[i].trip_id = trips[i].trip_id
                /\ trips'[i].created_by = trips[i].created_by
                /\ trips'[i].created_at = trips[i].created_at]_vars

\* a trip carries both the remarks written by the update whose body named
\* trip_id and an attachment
C22_Witness ==
    \E i \in 1 .. Len(trips) :
        /\ trips[i].remarks = Some("r")
        /\ "pod_filename" \in DOMAIN trips[i]
        /\ trips[i].created_by = "clerk"

\* ------------------------------------------------ check, then write
\* C23: no write of an update by a caller of role user is applied to a trip
\* whose stored status is "Completed" when the write is applied.
C23_NoUserWriteOnCompleted ==
    [][\A p \in Procs :
          (WriteStep(p) /\ loc[p].caller.role = "user"
              /\ Matching(trips, loc[p].trip_id) # {}
              /\ trips[FirstMatch(trips, loc[p].trip_id)].status = Some("Completed"))
            => trips' = trips]_vars

\* --------------------------------------------- failures: specification
FailNext ==
    \/ \E input \in AccessCreates : CreateFind(1, Clerk, input, MaxCreatesAcc)
    \/ CreateStamp(1)
    \/ CreateInsert(1)
    \/ \E p \in Procs, tid \in TargetIds :
           UpdateFind(p, Clerk, tid, [motor_owner_mobile |-> Some("m2")])
    \/ \E p \in Procs : UpdateWrite(p)
    \/ \E p \in Procs : UpdateFetch(p)
    \/ \E c \in {Admin, Clerk}, tid \in TargetIds : Delete(c, tid)
    \/ \E tid \in TargetIds : Get(Owner, tid)

SpecFail == Init /\ [][FailNext]_vars

\* C24: an update answered NotFound or Forbidden, a delete answered
\* Forbidden or NotFound and a get answered Forbidden or NotFound leave the
\* collection as it was: no trip is added, removed or modified.
C24_FailureChangesNothing ==
    [][(last' # last /\ last'.op \in {"update", "delete", "get"}
           /\ last'.code \in {403, 404})
         => trips' = trips]_vars

\* a delete by a caller who is not admin has been refused while the trip it
\* names is stored
C24_Witness ==
    /\ last.op = "delete" /\ last.code = 403
    /\ Matching(trips, last.trip_id) # {}

\* ------------------------------------ delete between check and write
ResurrectNext ==
    \/ \E p \in Procs : CreateFind(p, Clerk, BaseInput, MaxCreatesAcc)
    \/ \E p \in Procs : CreateStamp(p)
    \/ \E p \in Procs : CreateInsert(p)
    \/ \E p \in Procs, tid \in TargetIds :
           UpdateFind(p, Clerk, tid, [remarks |-> Some("r")])
    \/ \E p \in Procs : UpdateWrite(p)
    \/ \E p \in Procs : UpdateFetch(p)
    \/ \E p \in Procs, tid \in TargetIds : PodFind(p, Clerk, tid, <<"c">>)
    \/ \E p \in Procs : PodWrite(p)
    \/ \E tid \in TargetIds : Delete(Admin, tid)

SpecResurrect == Init /\ [][ResurrectNext]_vars

\* process p has passed the existence check of an update or an upload on
\* tid and has not written yet
BetweenCheckAndWrite(p, tid) ==
    pc[p] \in {"upd_write", "pod_write"} /\ loc[p].trip_id = tid

\* C25: when a delete of trip_id completes between the existence check and
\* the write of an update or an upload on that trip_id, the collection holds
\* no trip with that trip_id afterwards; the write of an update or an upload
\* adds no record; and a trip_id that is not stored becomes stored only by
\* the insert of a create.
C25_NoResurrection ==
    [][/\ \A p \in Procs :
            (last' # last /\ last'.op = "delete" /\ last'.code = 200
                /\ BetweenCheckAndWrite(p, last'.trip_id))
              => Matching(trips', last'.trip_id) = {}
       /\ \A p \in Procs :
            (WriteStep(p) \/ PodWriteStep(p)) => Len(trips') = Len(trips)
       /\ \A i \in 1 .. Len(trips') :
            Matching(trips, trips'[i].trip_id) = {} => Len(issued') = Len(issued) + 1]_vars

\* ------------------------------------- balances against the aggregate
AgreeUpdates == {[party_freight |-> Some(8)], [party_advance |-> Some(1)]}

AgreeNext ==
    \/ \E input \in PartyCreates : CreateFind(1, Clerk, input, MaxCreatesBal)
    \/ CreateStamp(1)
    \/ CreateInsert(1)
    \/ \E p \in Procs, tid \in TargetIds, input \in AgreeUpdates :
           UpdateFind(p, Clerk, tid, input)
    \/ \E p \in Procs : UpdateWrite(p)
    \/ \E p \in Procs : UpdateFetch(p)
    \/ Parties(Admin)

SpecAgree == Init /\ [][AgreeNext]_vars

\* C26: for every row the party analytics return, outstanding_balance is
\* the sum of the stored party_balance of the trips of the row's
\* (party_name, party_mobile).
C26_RowsAgreeWithBalances ==
    [][(last' # last /\ last'.op = "parties" /\ last'.code = 200) =>
          \A r \in last'.rows :
              r.outstanding_balance =
                  SumOver(trips,
                          {i \in 1 .. Len(trips) :
                              trips[i].party_name = r.party_name
                                /\ trips[i].party_mobile = r.party_mobile},
                          "party_balance")]_vars

====
